---- MODULE Spec2Model ----
(***************************************************************************)
(* A model of coinglass_mcp.py: four FastMCP tools that forward one GET    *)
(* request each to the CoinGlass REST API through _coinglass_get.          *)
(*                                                                         *)
(* A Python str is a sequence of one-character strings (fixed literals of  *)
(* the source may appear as one multi-character element).  A Python value  *)
(* that can be a str, an int or None is a record [t, v] tagged by type.    *)
(* A dict of query parameters is a function over ParamKeys whose missing   *)
(* keys map to Absent.  A parsed JSON value is a record tagged by t.       *)
(***************************************************************************)
EXTENDS Integers, Sequences, FiniteSets, TLC

VARIABLES env, pc, call, request, sent, response, outcome

vars == <<env, pc, call, request, sent, response, outcome>>

(* ------------------------------ bounds --------------------------------- *)

NumCalls == 2

MaxPathLen == 2

MaxSymbolLen == 2

(* ------------------------- Python values ------------------------------- *)

PyNone == [t |-> "none", v |-> <<>>]

PyStr(s) == [t |-> "str", v |-> s]

PyInt(digits) == [t |-> "int", v |-> digits]

Absent == [t |-> "absent", v |-> <<>>]

\* Python truthiness of None / str, as used by `not key`, `not interval`.
Truthy(x) == x.t # "none" /\ ~(x.t = "str" /\ x.v = <<>>)

isinstance_str(x) == x.t = "str"

ParamKeys == {"symbol", "interval"}

EmptyDict == [k \in ParamKeys |-> Absent]

\* dict.get(key): the value, or None when the key is missing.
dict_get(d, k) == IF d[k] = Absent THEN PyNone ELSE d[k]

DictKeys(d) == {k \in ParamKeys : d[k] # Absent}

SeqsUpTo(S, n) == UNION {[1..m -> S] : m \in 0..n}

(* --------------------------- basic config ------------------------------ *)

BASE_URL == "https://open-api-v4.coinglass.com"

API_KEY_ENV == "COINGLASS_API_KEY"

HOBBYIST_DISALLOWED_INTERVALS_no3m ==
    {<<"1","m">>, <<"5","m">>, <<"1","5","m">>, <<"3","0","m">>, <<"1","h">>}

HOBBYIST_DISALLOWED_INTERVALS ==
    {<<"1","m">>, <<"3","m">>, <<"5","m">>, <<"1","5","m">>, <<"3","0","m">>,
     <<"1","h">>}

\* httpx.AsyncClient(timeout=30): a GET that is not answered in time raises.
no_client_timeout == [enabled |-> FALSE, seconds |-> 0]

client_timeout == [enabled |-> TRUE, seconds |-> 30]

OI_PATH == <<"/", "api/futures/open-interest/exchange-list">>

FR_PATH == <<"/", "api/futures/funding-rate/accumulated-exchange-list">>

ETF_PATH == <<"/", "api/etf/bitcoin/flow-history">>

(* ------------------------------ outcomes ------------------------------- *)

NoRequest == [url |-> <<>>]

NoResponse == [status |-> 0, text |-> "<none>"]

NoOutcome == [kind |-> "none"]

NoCall == [tool |-> "none"]

Return(value) == [kind |-> "return", value |-> value]

Raise(exc, message) == [kind |-> "raise", exc |-> exc, message |-> message]

(* ---------------------------- _get_api_key ----------------------------- *)

ConfigError ==
    Raise("RuntimeError", [tmpl |-> "COINGLASS_API_KEY is not set"])

\* TRUE when _get_api_key raises for the value os.getenv returned.
get_api_key_raises_only_none(key) == key.t = "none"

get_api_key_raises(key) == ~Truthy(key)

(* -------------------------- _validate_interval ------------------------- *)

ValidationError ==
    Raise("ValueError", [tmpl |-> "'interval' must be >= 4h"])

\* TRUE when _validate_interval(interval) raises ValueError.
validate_interval_raises(interval) ==
    /\ Truthy(interval)
    /\ interval.v \in HOBBYIST_DISALLOWED_INTERVALS

(* --------------------------- path and url ------------------------------ *)

startswith_slash(path) == Len(path) > 0 /\ path[1] = "/"

NormalizePathAlways(path) == <<"/">> \o path

NormalizePath(path) ==
    IF ~startswith_slash(path) THEN <<"/">> \o path ELSE path

Url(path) == <<BASE_URL>> \o NormalizePath(path)

Headers(key) == ("Accept" :> <<"application/json">>) @@ ("CG-API-KEY" :> key.v)

(* ------------------------- response handling --------------------------- *)

JAbsent == [t |-> "absent", v |-> ""]

JNull == [t |-> "null", v |-> "None"]

JStr(s) == [t |-> "str", v |-> s]

JInt(s) == [t |-> "int", v |-> s]

JFloat(s) == [t |-> "float", v |-> s]

JBool(s) == [t |-> "bool", v |-> s]

JArray(s) == [t |-> "array", v |-> s]

JObject(code, msg, data) ==
    [t |-> "object", code |-> code, msg |-> msg, data |-> data]

JInvalid == [t |-> "invalid", v |-> ""]

\* Response bodies the upstream may send, as raw text.
BodyTexts ==
    {"{\"code\": \"0\", \"data\": [1,2,3]}",
     "{\"code\": 0, \"data\": []}",
     "{\"code\": \"40001\", \"msg\": \"bad symbol\"}",
     "{\"code\": 40001}",
     "{\"code\": false, \"msg\": \"x\"}",
     "{\"code\": true}",
     "{\"code\": 0.0}",
     "{\"code\": null}",
     "{\"code\": \"00\"}",
     "{\"data\": [1,2,3]}",
     "[1,2,3]",
     "\"internal error\"",
     "0",
     "null",
     "internal error",
     "",
     "{\"code\": \"0\", \"data\": [1,2"}

\* A lenient parse: text that is not JSON yields null instead of raising.
resp_json_lenient(text) ==
    CASE text = "{\"code\": \"0\", \"data\": [1,2,3]}" ->
             JObject(JStr("0"), JAbsent, "[1,2,3]")
      [] text = "{\"code\": 0, \"data\": []}" ->
             JObject(JInt("0"), JAbsent, "[]")
      [] text = "{\"code\": \"40001\", \"msg\": \"bad symbol\"}" ->
             JObject(JStr("40001"), JStr("bad symbol"), "")
      [] text = "{\"code\": 40001}" -> JObject(JInt("40001"), JAbsent, "")
      [] text = "{\"code\": false, \"msg\": \"x\"}" ->
             JObject(JBool("False"), JStr("x"), "")
      [] text = "{\"code\": true}" -> JObject(JBool("True"), JAbsent, "")
      [] text = "{\"code\": 0.0}" -> JObject(JFloat("0.0"), JAbsent, "")
      [] text = "{\"code\": null}" -> JObject(JNull, JAbsent, "")
      [] text = "{\"code\": \"00\"}" -> JObject(JStr("00"), JAbsent, "")
      [] text = "{\"data\": [1,2,3]}" -> JObject(JAbsent, JAbsent, "[1,2,3]")
      [] text = "[1,2,3]" -> JArray("[1,2,3]")
      [] text = "\"internal error\"" -> JStr("internal error")
      [] text = "0" -> JInt("0")
      [] text = "null" -> JNull
      [] OTHER -> JNull

\* resp.json(): the parsed value, or JInvalid where json.loads raises
\* JSONDecodeError.
resp_json(text) ==
    CASE text = "{\"code\": \"0\", \"data\": [1,2,3]}" ->
             JObject(JStr("0"), JAbsent, "[1,2,3]")
      [] text = "{\"code\": 0, \"data\": []}" ->
             JObject(JInt("0"), JAbsent, "[]")
      [] text = "{\"code\": \"40001\", \"msg\": \"bad symbol\"}" ->
             JObject(JStr("40001"), JStr("bad symbol"), "")
      [] text = "{\"code\": 40001}" -> JObject(JInt("40001"), JAbsent, "")
      [] text = "{\"code\": false, \"msg\": \"x\"}" ->
             JObject(JBool("False"), JStr("x"), "")
      [] text = "{\"code\": true}" -> JObject(JBool("True"), JAbsent, "")
      [] text = "{\"code\": 0.0}" -> JObject(JFloat("0.0"), JAbsent, "")
      [] text = "{\"code\": null}" -> JObject(JNull, JAbsent, "")
      [] text = "{\"code\": \"00\"}" -> JObject(JStr("00"), JAbsent, "")
      [] text = "{\"data\": [1,2,3]}" -> JObject(JAbsent, JAbsent, "[1,2,3]")
      [] text = "[1,2,3]" -> JArray("[1,2,3]")
      [] text = "\"internal error\"" -> JStr("internal error")
      [] text = "0" -> JInt("0")
      [] text = "null" -> JNull
      [] OTHER -> JInvalid

\* Response.raise_for_status() raises HTTPStatusError unless is_success.
raises_for_status_5xx_only(status) == status >= 500

raises_for_status(status) == ~(200 <= status /\ status <= 299)

isinstance_dict(data) == data.t = "object"

\* data.get(k) on a parsed object: None when the key is missing.
json_get(field) == IF field = JAbsent THEN JNull ELSE field

\* Python `x == 0`: true of the int 0, the floats 0.0 and -0.0, and False.
py_eq_int0(x) ==
    \/ x.t = "int" /\ x.v = "0"
    \/ x.t = "float" /\ x.v \in {"0.0", "-0.0"}
    \/ x.t = "bool" /\ x.v = "False"

\* Python `x == "0"`.
py_eq_str0(x) == x.t = "str" /\ x.v = "0"

\* `"code" in data and data.get("code") not in (0, "0")`
code_signals_error(data) ==
    /\ data.code # JAbsent
    /\ ~(py_eq_int0(json_get(data.code)) \/ py_eq_str0(json_get(data.code)))

HttpError(status, text) ==
    Raise("RuntimeError",
          [tmpl |-> "HTTP error from CoinGlass", status |-> status,
           text |-> text])

ApiError(data) ==
    Raise("RuntimeError",
          [tmpl |-> "CoinGlass API error", code |-> json_get(data.code).v,
           msg |-> json_get(data.msg).v])

JsonDecodeError == Raise("JSONDecodeError", [tmpl |-> "Expecting value"])

TimeoutError == Raise("TimeoutException", [tmpl |-> "timed out"])

\* _coinglass_get after the awaited GET has returned a response.
HandleResponse(status, text) ==
    IF raises_for_status(status) THEN HttpError(status, text)
    ELSE IF resp_json(text) = JInvalid THEN JsonDecodeError
    ELSE IF isinstance_dict(resp_json(text)) /\ code_signals_error(resp_json(text))
         THEN ApiError(resp_json(text))
    ELSE Return(resp_json(text))

(* ------------------------------ actions -------------------------------- *)

\* The invocation ends with an exception before any request is sent.
Fail(i, exc) ==
    /\ pc' = [pc EXCEPT ![i] = "done"]
    /\ outcome' = [outcome EXCEPT ![i] = exc]
    /\ UNCHANGED <<request, sent, response>>

\* _coinglass_get up to the awaited client.get.
Forward(i, path, params) ==
    IF get_api_key_raises(env)
    THEN Fail(i, ConfigError)
    ELSE /\ request' = [request EXCEPT ![i] =
                           [url |-> Url(path), headers |-> Headers(env),
                            params |-> params, timeout |-> client_timeout]]
         /\ sent' = [sent EXCEPT ![i] = @ + 1]
         /\ pc' = [pc EXCEPT ![i] = "awaiting"]
         /\ UNCHANGED <<response, outcome>>

NoneParams == [isNone |-> TRUE, d |-> EmptyDict]

DictParams(d) == [isNone |-> FALSE, d |-> d]

\* `params or {}`
or_empty(params) == IF params.isNone THEN EmptyDict ELSE params.d

coinglass_raw_get(i, path, params) ==
    /\ pc[i] = "idle"
    /\ call' = [call EXCEPT ![i] =
                   [tool |-> "coinglass_raw_get", path |-> path,
                    params |-> params]]
    /\ LET p == or_empty(params)
           interval == dict_get(p, "interval")
       IN IF isinstance_str(interval) /\ validate_interval_raises(interval)
          THEN Fail(i, ValidationError)
          ELSE Forward(i, path, p)
    /\ UNCHANGED env

OIParamsWithInterval(symbol) ==
    [EmptyDict EXCEPT !["symbol"] = PyStr(symbol),
                      !["interval"] = PyStr(<<"1","d">>)]

OIParams(symbol) == [EmptyDict EXCEPT !["symbol"] = PyStr(symbol)]

futures_open_interest_exchange_list(i, symbol) ==
    /\ pc[i] = "idle"
    /\ call' = [call EXCEPT ![i] =
                   [tool |-> "futures_open_interest_exchange_list",
                    symbol |-> symbol]]
    /\ Forward(i, OI_PATH, OIParams(symbol))
    /\ UNCHANGED env

FRParams(symbol) == [EmptyDict EXCEPT !["symbol"] = PyStr(symbol)]

funding_rate_exchange_list(i, symbol) ==
    /\ pc[i] = "idle"
    /\ call' = [call EXCEPT ![i] =
                   [tool |-> "funding_rate_exchange_list", symbol |-> symbol]]
    /\ Forward(i, FR_PATH, FRParams(symbol))
    /\ UNCHANGED env

btc_etf_flows_history(i, interval) ==
    /\ pc[i] = "idle"
    /\ call' = [call EXCEPT ![i] =
                   [tool |-> "btc_etf_flows_history", interval |-> interval]]
    /\ IF validate_interval_raises(PyStr(interval))
       THEN Fail(i, ValidationError)
       ELSE Forward(i, ETF_PATH,
                    [EmptyDict EXCEPT !["interval"] = PyStr(interval)])
    /\ UNCHANGED env

\* A forwarder that keeps the last successful payload in a module-level cache
\* and serves it to later invocations.
ClientGetResponseCached(i, status, text) ==
    /\ pc[i] = "awaiting"
    /\ response' = [response EXCEPT ![i] = [status |-> status, text |-> text]]
    /\ LET hits == {j \in DOMAIN pc :
                       j # i /\ pc[j] = "done" /\ outcome[j].kind = "return"}
       IN outcome' = [outcome EXCEPT ![i] =
                         IF hits # {} THEN outcome[CHOOSE j \in hits : TRUE]
                         ELSE HandleResponse(status, text)]
    /\ pc' = [pc EXCEPT ![i] = "done"]
    /\ UNCHANGED <<env, call, request, sent>>

\* The upstream answers the GET of invocation i; _coinglass_get resumes.
ClientGetResponse(i, status, text) ==
    /\ pc[i] = "awaiting"
    /\ response' = [response EXCEPT ![i] = [status |-> status, text |-> text]]
    /\ outcome' = [outcome EXCEPT ![i] = HandleResponse(status, text)]
    /\ pc' = [pc EXCEPT ![i] = "done"]
    /\ UNCHANGED <<env, call, request, sent>>

\* A client that re-issues the GET once after a timeout.
ClientGetTimeoutRetry(i) ==
    /\ pc[i] = "awaiting"
    /\ request[i].timeout.enabled
    /\ IF sent[i] < 2
       THEN /\ sent' = [sent EXCEPT ![i] = @ + 1]
            /\ UNCHANGED <<pc, outcome>>
       ELSE /\ outcome' = [outcome EXCEPT ![i] = TimeoutError]
            /\ pc' = [pc EXCEPT ![i] = "done"]
            /\ UNCHANGED sent
    /\ UNCHANGED <<env, call, request, response>>

\* The upstream does not answer in time; client.get raises.
ClientGetTimeout(i) ==
    /\ pc[i] = "awaiting"
    /\ request[i].timeout.enabled
    /\ outcome' = [outcome EXCEPT ![i] = TimeoutError]
    /\ pc' = [pc EXCEPT ![i] = "done"]
    /\ UNCHANGED <<env, call, request, sent, response>>

(* --------------------------- specifications ---------------------------- *)

Calls == 1..NumCalls

EnvValues == {PyNone, PyStr(<<>>), PyStr(<<"k">>)}

PathChars == {"/", "a"}

Paths ==
    SeqsUpTo(PathChars, MaxPathLen)
        \cup {OI_PATH, Tail(OI_PATH)}

SymbolChars == {"b", "B", "1"}

DefaultSymbol == <<"B","T","C","U","S","D","T">>

Symbols == SeqsUpTo(SymbolChars, MaxSymbolLen) \cup {DefaultSymbol}

Intervals ==
    {<<"1","m">>, <<"3","m">>, <<"5","m">>, <<"1","5","m">>, <<"3","0","m">>,
     <<"1","h">>, <<"4","h">>, <<"1","d">>, <<"1","w">>, <<"1","H">>, <<>>}

IntervalValues ==
    {Absent, PyNone, PyInt(<<"5">>)} \cup {PyStr(s) : s \in Intervals}

ParamDicts ==
    {[symbol |-> s, interval |-> v] :
        s \in {Absent, PyStr(<<"B">>)}, v \in IntervalValues}

ParamArgs == {NoneParams} \cup {DictParams(d) : d \in ParamDicts}

Statuses == {200, 204, 301, 404, 500}

Full ==
    [calls |-> {1}, paths |-> Paths, params |-> ParamArgs,
     symbols |-> Symbols, intervals |-> Intervals, statuses |-> Statuses,
     texts |-> BodyTexts]

Small ==
    [calls |-> Calls, paths |-> {<<"a">>},
     params |-> {NoneParams,
                 DictParams([EmptyDict EXCEPT !["interval"] = PyStr(<<"1","m">>)])},
     symbols |-> {<<"b">>}, intervals |-> {<<"1","d">>, <<"1","h">>},
     statuses |-> {200, 500},
     texts |-> {"{\"code\": \"0\", \"data\": [1,2,3]}",
                "{\"code\": \"40001\", \"msg\": \"bad symbol\"}",
                "internal error"}]

Init ==
    /\ env \in EnvValues
    /\ pc = [i \in Calls |-> "idle"]
    /\ call = [i \in Calls |-> NoCall]
    /\ request = [i \in Calls |-> NoRequest]
    /\ sent = [i \in Calls |-> 0]
    /\ response = [i \in Calls |-> NoResponse]
    /\ outcome = [i \in Calls |-> NoOutcome]

Step(U) ==
    \E i \in U.calls :
        \/ \E path \in U.paths, params \in U.params :
               coinglass_raw_get(i, path, params)
        \/ \E symbol \in U.symbols :
               futures_open_interest_exchange_list(i, symbol)
        \/ \E symbol \in U.symbols : funding_rate_exchange_list(i, symbol)
        \/ \E interval \in U.intervals : btc_etf_flows_history(i, interval)
        \/ \E status \in U.statuses, text \in U.texts :
               ClientGetResponse(i, status, text)
        \/ ClientGetTimeout(i)

\* One invocation at a time, inputs from the full sets.
Next == Step(Full)

Spec == Init /\ [][Next]_vars

\* NumCalls concurrent invocations, inputs from the small sets.
ConcNext == Step(Small)

ConcSpec == Init /\ [][ConcNext]_vars

\* The HTTP client's timer fires and the event loop resumes the coroutine.
LiveSpec == Spec /\ \A i \in Calls : WF_vars(ClientGetTimeout(i))

TypeOK ==
    /\ env \in EnvValues
    /\ pc \in [Calls -> {"idle", "awaiting", "done"}]
    /\ sent \in [Calls -> 0..2]

(* ------------------------------ properties ----------------------------- *)

\* The error taxonomy, read off the exception class and message of each
\* raise site.
ErrorKind(o) ==
    IF o.kind # "raise" THEN "none"
    ELSE CASE o.exc = "ValueError" -> "Validation"
           [] o.exc = "RuntimeError"
                /\ o.message.tmpl = "COINGLASS_API_KEY is not set" ->
                  "Configuration"
           [] o.exc = "RuntimeError"
                /\ o.message.tmpl = "CoinGlass API error" -> "Application"
           [] o.exc = "RuntimeError"
                /\ o.message.tmpl = "HTTP error from CoinGlass" -> "Transport"
           [] o.exc = "JSONDecodeError" -> "Transport"
           [] o.exc = "TimeoutException" -> "Transport"
           [] OTHER -> "unknown"

Started(i) == pc[i] # "idle"

Done(i) == pc[i] = "done"

Answered(i) == Done(i) /\ response[i] # NoResponse

KeyMissing == env = PyNone \/ env = PyStr(<<>>)

\* The disallowed set as the specification lists it.
SpecDisallowed ==
    {<<"1","m">>, <<"3","m">>, <<"5","m">>, <<"1","5","m">>, <<"3","0","m">>,
     <<"1","h">>}

\* TRUE when the invocation carries an interval that is a string.
HasStrInterval(c) ==
    \/ c.tool = "btc_etf_flows_history"
    \/ /\ c.tool = "coinglass_raw_get"
       /\ ~c.params.isNone
       /\ c.params.d["interval"].t = "str"

StrInterval(c) ==
    IF c.tool = "btc_etf_flows_history" THEN c.interval
    ELSE c.params.d["interval"].v

CarriesDisallowed(c) == HasStrInterval(c) /\ StrInterval(c) \in SpecDisallowed

\* C1 as stated: with the API key absent or empty every tool call, whatever
\* its arguments, fails with a Configuration Error and sends no request.
C1_Original ==
    \A i \in Calls :
        (KeyMissing /\ Started(i)) =>
            /\ Done(i)
            /\ ErrorKind(outcome[i]) = "Configuration"
            /\ sent[i] = 0

\* C1 amended: with the API key absent or empty every tool call fails and
\* sends no request; the failure is a Validation Error when the call carries
\* a disallowed string interval and a Configuration Error otherwise.
C1_NoKeyNoRequest ==
    \A i \in Calls :
        (KeyMissing /\ Started(i)) =>
            /\ Done(i)
            /\ sent[i] = 0
            /\ request[i] = NoRequest
            /\ ErrorKind(outcome[i]) =
                   IF CarriesDisallowed(call[i]) THEN "Validation"
                   ELSE "Configuration"

C1_Witness ==
    /\ env = PyStr(<<>>)
    /\ Done(1)
    /\ call[1].tool = "coinglass_raw_get"
    /\ ErrorKind(outcome[1]) = "Configuration"
    /\ sent[1] = 0

\* C2 as stated: a call with a disallowed string interval fails with a
\* Validation Error and sends nothing; with any other string interval
\* validation passes and a request is sent.
C2_Original ==
    \A i \in Calls :
        (Started(i) /\ HasStrInterval(call[i])) =>
            IF StrInterval(call[i]) \in SpecDisallowed
            THEN Done(i) /\ ErrorKind(outcome[i]) = "Validation" /\ sent[i] = 0
            ELSE ErrorKind(outcome[i]) # "Validation" /\ sent[i] = 1

\* C2 amended: a call with a disallowed string interval fails with a
\* Validation Error and sends nothing; with any other string interval
\* validation passes, and a request is sent exactly when the API key is
\* configured (otherwise the call fails with a Configuration Error).
C2_IntervalValidation ==
    \A i \in Calls :
        (Started(i) /\ HasStrInterval(call[i])) =>
            IF StrInterval(call[i]) \in SpecDisallowed
            THEN Done(i) /\ ErrorKind(outcome[i]) = "Validation" /\ sent[i] = 0
            ELSE /\ ErrorKind(outcome[i]) # "Validation"
                 /\ IF KeyMissing
                    THEN sent[i] = 0 /\ ErrorKind(outcome[i]) = "Configuration"
                    ELSE sent[i] = 1

C2_Witness ==
    /\ env = PyStr(<<"k">>)
    /\ Done(1)
    /\ call[1].tool = "coinglass_raw_get"
    /\ HasStrInterval(call[1])
    /\ StrInterval(call[1]) = <<"3","m">>
    /\ ErrorKind(outcome[1]) = "Validation"
    /\ sent[1] = 0

IsSuccessStatus(status) == status \in 200..299

\* The number zero as JSON has it: 0 or 0.0, never a boolean.
IsNumberZero(x) ==
    \/ x.t = "int" /\ x.v = "0"
    \/ x.t = "float" /\ x.v \in {"0.0", "-0.0"}

IsStringZero(x) == x.t = "str" /\ x.v = "0"

\* C3: after a 2xx response with a JSON body the forwarder raises an
\* Application Error with the upstream code and msg exactly when the body is
\* an object with a `code` that is neither the number 0 nor the string "0",
\* and returns the parsed value unchanged in every other case.
C3_Original ==
    \A i \in Calls :
        (/\ Answered(i)
         /\ IsSuccessStatus(response[i].status)
         /\ resp_json(response[i].text) # JInvalid) =>
            LET data == resp_json(response[i].text)
            IN IF /\ data.t = "object"
                  /\ data.code # JAbsent
                  /\ ~IsNumberZero(data.code)
                  /\ ~IsStringZero(data.code)
               THEN /\ ErrorKind(outcome[i]) = "Application"
                    /\ outcome[i].message.code = data.code.v
                    /\ outcome[i].message.msg = json_get(data.msg).v
               ELSE outcome[i] = Return(data)

\* C4: a response with a non-2xx status ends the invocation with a Transport
\* Error that carries the status code and the raw body text; the body is
\* never returned as a value.
C4_NonSuccessIsTransportError ==
    \A i \in Calls :
        (Answered(i) /\ ~IsSuccessStatus(response[i].status)) =>
            /\ outcome[i].kind = "raise"
            /\ ErrorKind(outcome[i]) = "Transport"
            /\ outcome[i].message.status = response[i].status
            /\ outcome[i].message.text = response[i].text

C4_Witness ==
    /\ Answered(1)
    /\ response[1] = [status |-> 404, text |-> "{\"code\": \"0\", \"data\": [1,2,3]}"]
    /\ ErrorKind(outcome[1]) = "Transport"

\* C5: an invocation sends exactly one request, or none when the API key or
\* interval check fails first; no outcome leads to a second request.
C5_AtMostOneRequest ==
    \A i \in Calls :
        /\ sent[i] \in {0, 1}
        /\ pc[i] = "idle" => sent[i] = 0
        /\ pc[i] = "awaiting" => sent[i] = 1
        /\ Done(i) =>
              (sent[i] = 0 <=>
                  ErrorKind(outcome[i]) \in {"Configuration", "Validation"})

C5_Witness ==
    /\ Done(1)
    /\ outcome[1] = TimeoutError
    /\ sent[1] = 1

\* Bodies that are not JSON.
NotJsonTexts == {"internal error", "", "{\"code\": \"0\", \"data\": [1,2"}

\* C6: a 2xx response whose body is not JSON ends the invocation with an
\* error of the transport kind, whose exception is not the one raised for a
\* Validation, Configuration or Application Error, and no value is returned.
C6_MalformedBodyIsTransportError ==
    \A i \in Calls :
        (/\ Answered(i)
         /\ IsSuccessStatus(response[i].status)
         /\ response[i].text \in NotJsonTexts) =>
            /\ outcome[i].kind = "raise"
            /\ ErrorKind(outcome[i]) = "Transport"
            /\ outcome[i].exc \notin
                   {ValidationError.exc, ConfigError.exc, "RuntimeError"}

C6_Witness ==
    /\ Answered(1)
    /\ response[1] = [status |-> 200, text |-> "{\"code\": \"0\", \"data\": [1,2"]
    /\ outcome[1].kind = "raise"
    /\ outcome[1].exc = "JSONDecodeError"

\* C7: an invocation that has sent its GET eventually ends, and when the
\* upstream never answered it ends with the timeout error.
C7_AwaitingTerminates ==
    \A i \in Calls :
        (pc[i] = "awaiting") ~>
            (/\ Done(i)
             /\ (response[i] = NoResponse => outcome[i] = TimeoutError))

C7_Witness ==
    /\ Done(1)
    /\ sent[1] = 1
    /\ response[1] = NoResponse
    /\ ErrorKind(outcome[1]) = "Transport"
    /\ outcome[1].exc = "TimeoutException"

\* The outcome of an invocation run on its own, from its arguments, the API
\* key and the upstream's answer to its request (NoResponse: no answer).
RunAlone(c, key, resp) ==
    LET forwarded ==
            IF ~Truthy(key) THEN ConfigError
            ELSE IF resp = NoResponse THEN TimeoutError
            ELSE HandleResponse(resp.status, resp.text)
    IN IF CarriesDisallowed(c) THEN ValidationError ELSE forwarded

\* C8: under every interleaving each finished invocation has the outcome it
\* would have alone, and two invocations with the same arguments and the
\* same upstream answer have the same outcome.
C8_Independent ==
    /\ \A i \in Calls :
           Done(i) => outcome[i] = RunAlone(call[i], env, response[i])
    /\ \A i, j \in Calls :
           (/\ Done(i) /\ Done(j)
            /\ call[i] = call[j]
            /\ response[i] = response[j]) => outcome[i] = outcome[j]

C8_Witness ==
    /\ Done(1) /\ Done(2)
    /\ call[1] = call[2]
    /\ response[1] = response[2]
    /\ outcome[1].kind = "return"
    /\ outcome[2] = outcome[1]

\* C9: the request URL of a path without a leading '/' is the base origin,
\* '/', and the path; a path with a leading '/' is appended as is.
C9_PathNormalization ==
    \A i \in Calls :
        (sent[i] = 1 /\ call[i].tool = "coinglass_raw_get") =>
            LET path == call[i].path
            IN /\ request[i].url =
                      IF Len(path) > 0 /\ Head(path) = "/"
                      THEN <<BASE_URL>> \o path
                      ELSE <<BASE_URL, "/">> \o path
               /\ Url(Tail(request[i].url)) = request[i].url

C9_Witness ==
    /\ sent[1] = 1
    /\ call[1].tool = "coinglass_raw_get"
    /\ call[1].path = Tail(OI_PATH)
    /\ request[1].url = <<BASE_URL>> \o OI_PATH

UpperChar(c) ==
    CASE c = "b" -> "B"
      [] c = "t" -> "T"
      [] c = "c" -> "C"
      [] c = "u" -> "U"
      [] c = "s" -> "S"
      [] c = "d" -> "D"
      [] OTHER -> c

\* str.upper()
str_upper(s) == [k \in 1..Len(s) |-> UpperChar(s[k])]

SymbolTools ==
    {"futures_open_interest_exchange_list", "funding_rate_exchange_list"}

FixedPath(tool) ==
    IF tool = "futures_open_interest_exchange_list"
    THEN <<"/", "api/futures/open-interest/exchange-list">>
    ELSE <<"/", "api/futures/funding-rate/accumulated-exchange-list">>

\* C10 as stated: the symbol tools send the symbol argument in upper case as
\* the only query parameter, to their fixed endpoint.
C10_Original ==
    \A i \in Calls :
        (sent[i] = 1 /\ call[i].tool \in SymbolTools) =>
            /\ request[i].params["symbol"] = PyStr(str_upper(call[i].symbol))
            /\ DictKeys(request[i].params) = {"symbol"}
            /\ request[i].url = <<BASE_URL>> \o FixedPath(call[i].tool)

\* C10 amended: the symbol tools send the symbol argument unchanged (no case
\* conversion) as the only query parameter, to their fixed endpoint.
C10_SymbolPassedUnchanged ==
    \A i \in Calls :
        (sent[i] = 1 /\ call[i].tool \in SymbolTools) =>
            /\ request[i].params["symbol"] = PyStr(call[i].symbol)
            /\ DictKeys(request[i].params) = {"symbol"}
            /\ request[i].url = <<BASE_URL>> \o FixedPath(call[i].tool)

C10_Witness ==
    /\ sent[1] = 1
    /\ call[1].tool = "futures_open_interest_exchange_list"
    /\ call[1].symbol = <<"b", "1">>
    /\ request[1].params["symbol"] = PyStr(<<"b", "1">>)

====
